---------------------------- MODULE Spec2Model ----------------------------
(***************************************************************************)
(* State-machine model of pi-voice/voice.py (MegatronClient): the idle     *)
(* wake-word loop, the voice-activity gated capture loop, and the per-turn *)
(* orchestration chat -> directives -> synthesis -> playback -> follow-up. *)
(*                                                                         *)
(* Text is a sequence of one-character strings.  An assistant reply may    *)
(* also hold the two tag tokens "<HA_COMMAND>" and "</HA_COMMAND>" and the *)
(* lexical tokens of a small JSON fragment.  Audio blocks are not kept:    *)
(* a buffer (a Python list of blocks) is modelled by its length, and a     *)
(* block by its RMS energy.                                                *)
(***************************************************************************)
EXTENDS Integers, Sequences, FiniteSets, TLC

(***************************************************************************)
(* Program constants (voice.py, "Config").                                 *)
(***************************************************************************)
SAMPLE_RATE == 16000
CHUNK_SIZE == 512
SILENCE_THRESHOLD == 300
\* SILENCE_DURATION = 2.0 seconds, kept in milliseconds
SILENCE_DURATION_MS == 2000
MAX_RECORD_SECONDS == 12
WAKE_CHUNK_SECONDS == 2
\* self.history[-10:]
HISTORY_WINDOW == 10
\* len(after_wake) > 3
INLINE_MIN == 3

WAKE_WORD == <<"m", "e", "g", "a", "t", "r", "o", "n">>
SYSTEM_PROMPT == <<"SYSTEM_PROMPT">>

(***************************************************************************)
(* Bounds of the model.                                                    *)
(***************************************************************************)
\* chat calls per run in the main specification
MaxTurns == 2
\* chat calls per run in the history specification
HistTurns == 6
\* failed device reads explored per capture cycle
MaxFailedReads == 2
\* longest run of letters after the wake word in a decoded wake window
MaxTrail == 5
\* longest service identifier in a directive
MaxSvcLen == 3
\* segments (plain text or delimited payload) of a composed reply
MaxSegs == 3
\* chat calls per run in the capture specification
CaptureTurns == 1
\* chat calls per run in the dispatch specification
DispatchTurns == 1

(***************************************************************************)
(* Python string operations, computed as Python computes them.             *)
(***************************************************************************)
Upper == <<"A","B","C","D","E","F","G","H","I","J","K","L","M",
           "N","O","P","Q","R","S","T","U","V","W","X","Y","Z">>
LowerAlpha == <<"a","b","c","d","e","f","g","h","i","j","k","l","m",
                "n","o","p","q","r","s","t","u","v","w","x","y","z">>

\* str.lower() on one character
LowerChar(c) ==
    IF \E k \in 1..26 : Upper[k] = c
    THEN LowerAlpha[CHOOSE k \in 1..26 : Upper[k] = c]
    ELSE c

\* str.lower()
lower(s) == [k \in 1..Len(s) |-> LowerChar(s[k])]

\* w occurs in s at position k
OccursAt(s, w, k) ==
    /\ k >= 1
    /\ k + Len(w) - 1 <= Len(s)
    /\ \A j \in 1..Len(w) : s[k + j - 1] = w[j]

\* str.find(w) + 1, 0 when absent
Find(s, w) ==
    IF \E k \in 1..(Len(s) + 1) : OccursAt(s, w, k)
    THEN CHOOSE k \in 1..(Len(s) + 1) :
            /\ OccursAt(s, w, k)
            /\ \A m \in 1..(k - 1) : ~OccursAt(s, w, m)
    ELSE 0

\* the Python test  w in s
Contains(s, w) == Find(s, w) # 0

\* s.split(w, 1)[-1]: what follows the first occurrence of w, or s itself
SplitLast(s, w) ==
    IF Find(s, w) = 0 THEN s
    ELSE SubSeq(s, Find(s, w) + Len(w), Len(s))

\* s.strip(chars)
Strip(s, chars) ==
    IF \A k \in 1..Len(s) : s[k] \in chars THEN <<>>
    ELSE LET first == CHOOSE k \in 1..Len(s) :
                          /\ s[k] \notin chars
                          /\ \A m \in 1..(k - 1) : s[m] \in chars
             last  == CHOOSE k \in 1..Len(s) :
                          /\ s[k] \notin chars
                          /\ \A m \in (k + 1)..Len(s) : s[m] \in chars
         IN SubSeq(s, first, last)

\* s.rstrip(chars)
RStrip(s, chars) ==
    IF \A k \in 1..Len(s) : s[k] \in chars THEN <<>>
    ELSE LET last == CHOOSE k \in 1..Len(s) :
                          /\ s[k] \notin chars
                          /\ \A m \in (k + 1)..Len(s) : s[m] \in chars
         IN SubSeq(s, 1, last)

\* the characters str.strip() with no argument removes
WS == {" ", "\t", "\n", "\r"}

\* the argument of  .strip(' .,!?')
WAKE_STRIP == {" ", ".", ",", "!", "?"}

RECURSIVE Join(_, _)
\* sep.join(parts)
Join(parts, sep) ==
    IF Len(parts) = 0 THEN <<>>
    ELSE IF Len(parts) = 1 THEN parts[1]
    ELSE parts[1] \o sep \o Join(Tail(parts), sep)

\* s.endswith(c) for a one-character c
EndsWith(s, c) == Len(s) > 0 /\ s[Len(s)] = c

\* transcribe_with_model: ' '.join(s.text for s in segments).strip()
transcribe_with_model(segments) == Strip(Join(segments, <<" ">>), WS)

(***************************************************************************)
(* Derived loop limits.                                                    *)
(***************************************************************************)
\* int(WAKE_CHUNK_SECONDS * SAMPLE_RATE / CHUNK_SIZE)
chunks_needed == (WAKE_CHUNK_SECONDS * SAMPLE_RATE) \div CHUNK_SIZE

\* int(SILENCE_DURATION * SAMPLE_RATE / CHUNK_SIZE)
silence_needed == (SILENCE_DURATION_MS * SAMPLE_RATE) \div (1000 * CHUNK_SIZE)

\* the loop limit with one iteration more
max_chunks_plus ==
    (MAX_RECORD_SECONDS * SAMPLE_RATE) \div CHUNK_SIZE + 1

\* int(MAX_RECORD_SECONDS * SAMPLE_RATE / CHUNK_SIZE)
max_chunks == (MAX_RECORD_SECONDS * SAMPLE_RATE) \div CHUNK_SIZE


(***************************************************************************)
(* Directives: the delimiter pair, a small JSON fragment, extraction,      *)
(* cleaning and the control call.                                          *)
(***************************************************************************)
OPEN == "<HA_COMMAND>"
CLOSE == "</HA_COMMAND>"

\* the two halves of the characters of an opening delimiter, for text in
\* which they stand apart
OPEN_HEAD == "<HA_"
OPEN_TAIL == "COMMAND>"

RECURSIVE Fuse(_)
\* a text is a string of characters: where the two halves of an opening
\* delimiter have come to stand side by side, they are the delimiter
Fuse(s) ==
    IF Len(s) < 2 THEN s
    ELSE IF s[1] = OPEN_HEAD /\ s[2] = OPEN_TAIL
    THEN <<OPEN>> \o Fuse(SubSeq(s, 3, Len(s)))
    ELSE <<s[1]>> \o Fuse(Tail(s))

\* lexical tokens of the JSON fragment a payload is written in
QUOTE == "\""
K_SERVICE == "\"service\":"
K_ENTITY == "\"entity_id\":"
K_DATA == "\"data\":"
JsonKeys == {K_SERVICE, K_ENTITY, K_DATA}

\* the result of a failed json.loads (json.JSONDecodeError)
JsonError ==
    [ok |-> FALSE, type |-> "none", keys |-> {}, service |-> <<>>,
     service_kind |-> "none", data_dict |-> FALSE]

\* a parsed document that is not an object (a list, a number)
JsonScalar(t) ==
    [ok |-> TRUE, type |-> t, keys |-> {}, service |-> <<>>,
     service_kind |-> "none", data_dict |-> FALSE]

\* the empty object {}
JsonEmptyDict ==
    [ok |-> TRUE, type |-> "dict", keys |-> {}, service |-> <<>>,
     service_kind |-> "none", data_dict |-> FALSE]

\* obj[key] = value, for a value starting at toks[1]; the value's kind is
\* "str" (with its characters), "num", "list" or "dict"
SetMember(obj, key, kind, chars) ==
    [obj EXCEPT !.keys = @ \cup {key},
                !.service = IF key = K_SERVICE
                            THEN (IF kind = "str" THEN chars ELSE <<>>) ELSE @,
                !.service_kind = IF key = K_SERVICE THEN kind ELSE @,
                !.data_dict = IF key = K_DATA THEN kind = "dict" ELSE @]

RECURSIVE ParseMembers(_, _)
\* the members  key value (, key value)*  of an object, folded into obj
ParseMembers(toks, obj) ==
    IF Len(toks) < 2 \/ toks[1] \notin JsonKeys THEN JsonError
    ELSE LET key == toks[1]
             v   == Tail(toks)
             \* (kind, characters, number of tokens of the value), 0 = no value
             val == IF v[1] = QUOTE
                    THEN LET q == Find(Tail(v), <<QUOTE>>)
                         IN IF q = 0 THEN <<"none", <<>>, 0>>
                            ELSE <<"str", SubSeq(v, 2, q), q + 1>>
                    ELSE IF v[1] = "5" THEN <<"num", <<>>, 1>>
                    ELSE IF v[1] = "[]" THEN <<"list", <<>>, 1>>
                    ELSE IF Len(v) >= 2 /\ v[1] = "{" /\ v[2] = "}"
                    THEN <<"dict", <<>>, 2>>
                    ELSE <<"none", <<>>, 0>>
             rest == SubSeq(v, val[3] + 1, Len(v))
             next == SetMember(obj, key, val[1], val[2])
         IN IF val[3] = 0 THEN JsonError
            ELSE IF rest = <<>> THEN next
            ELSE IF rest[1] = "," THEN ParseMembers(Tail(rest), next)
            ELSE JsonError

\* json.loads on the token sequence of one document
json_loads(toks) ==
    IF toks = <<"5">> THEN JsonScalar("num")
    ELSE IF toks = <<"[]">> THEN JsonScalar("list")
    ELSE IF Len(toks) >= 2 /\ toks[1] = "{" /\ toks[Len(toks)] = "}"
    THEN IF Len(toks) = 2 THEN JsonEmptyDict
         ELSE ParseMembers(SubSeq(toks, 2, Len(toks) - 1), JsonEmptyDict)
    ELSE JsonError

\* the last position of w in s, 0 when absent
FindLast(s, w) ==
    IF \E k \in 1..Len(s) : OccursAt(s, w, k)
    THEN CHOOSE k \in 1..Len(s) :
             OccursAt(s, w, k) /\ \A j \in (k + 1)..Len(s) : ~OccursAt(s, w, j)
    ELSE 0

\* the pattern with a greedy  .*  : one match, up to the last closing
\* delimiter
FindAllGreedy(s) ==
    LET o == Find(s, <<OPEN>>)
    IN IF o = 0 THEN <<>>
       ELSE LET rest == SubSeq(s, o + 1, Len(s))
                c    == FindLast(rest, <<CLOSE>>)
            IN IF c = 0 THEN <<>> ELSE <<SubSeq(rest, 1, c - 1)>>

RECURSIVE FindAll(_)
\* re.findall(r'<HA_COMMAND>(.*?)</HA_COMMAND>', text, re.DOTALL)
FindAll(s) ==
    LET o == Find(s, <<OPEN>>)
    IN IF o = 0 THEN <<>>
       ELSE LET rest == SubSeq(s, o + 1, Len(s))
                c    == Find(rest, <<CLOSE>>)
            IN IF c = 0 THEN <<>>
               ELSE <<SubSeq(rest, 1, c - 1)>>
                    \o FindAll(SubSeq(rest, c + 1, Len(rest)))

RECURSIVE RemoveAll(_)
\* re.sub(r'<HA_COMMAND>.*?</HA_COMMAND>', '', text, flags=re.DOTALL)
RemoveAll(s) ==
    LET o == Find(s, <<OPEN>>)
    IN IF o = 0 THEN s
       ELSE LET rest == SubSeq(s, o + 1, Len(s))
                c    == Find(rest, <<CLOSE>>)
            IN IF c = 0 THEN s
               ELSE SubSeq(s, 1, o - 1)
                    \o RemoveAll(SubSeq(rest, c + 1, Len(rest)))

\* keep the elements of a sequence that satisfy ok
RECURSIVE KeepParsed(_)
KeepParsed(docs) ==
    IF docs = <<>> THEN <<>>
    ELSE LET d == json_loads(Strip(Head(docs), WS))
         IN (IF d.ok THEN <<d>> ELSE <<>>) \o KeepParsed(Tail(docs))

\* extract_ha_commands: the payloads that parse, in source order
extract_ha_commands(s) == KeepParsed(FindAll(s))

\* clean_response: one pass of re.sub over the text, then strip()
clean_response(s) == Strip(Fuse(RemoveAll(s)), WS)

\* the test  '/' not in service and '.' not in service  fails
HasSeparator(service) == Contains(service, <<"/">>) \/ Contains(service, <<".">>)

\* sep = '/' if '/' in service else '.'
Separator(service) == IF Contains(service, <<"/">>) THEN "/" ELSE "."

\* execute_ha_command up to the POST: whether a control call is made, and
\* its URL parts.  An exception before the POST (a command that is not a
\* dict, a service that is a number, a data that is not a dict) is caught
\* by the handler's  except Exception ; a service that is a list or a dict
\* holds no separator and returns.
HaRequest(command) ==
    LET none == [made |-> FALSE, raised |-> FALSE, domain |-> <<>>, svc |-> <<>>]
    IN IF command.type # "dict" THEN [none EXCEPT !.raised = TRUE]
       ELSE IF K_SERVICE \notin command.keys THEN none
       ELSE IF command.service_kind = "num" THEN [none EXCEPT !.raised = TRUE]
       ELSE IF command.service_kind # "str" THEN none
       ELSE IF ~HasSeparator(command.service) THEN none
       ELSE IF K_DATA \in command.keys /\ ~command.data_dict
            THEN [none EXCEPT !.raised = TRUE]
       ELSE LET sep == Separator(command.service)
                k   == Find(command.service, <<sep>>)
            IN [made |-> TRUE, raised |-> FALSE,
                domain |-> SubSeq(command.service, 1, k - 1),
                svc |-> SubSeq(command.service, k + 1, Len(command.service))]

(***************************************************************************)
(* State.                                                                  *)
(***************************************************************************)
VARIABLES
    pc,             \* where the single thread of control stands
    audio_open,     \* self.audio_input is open (cleanup closes it)
    wake_buffer,    \* len(wake_buffer) in listen_for_wake_word
    text,           \* the decoded wake window (local text), until the next read
    audio_buffer,   \* len(self.audio_buffer)
    i,              \* iterations of  for i in range(max_chunks)  begun
    silence_chunks, \* local silence_chunks of record_and_respond
    transcription,  \* the argument of process_transcription
    history,        \* self.history
    response_text,  \* local response_text of process_transcription
    ha_commands,    \* the commands of the for loop still to execute
    stack,          \* the active process_transcription calls, outermost first
    sent,           \* the messages of the last chat request
    ha_calls,       \* the control calls posted in the current turn
    attempts,       \* the execute_ha_command calls of the current turn
    beeps,          \* how often the cue was played
    quiet_run,      \* trailing captured blocks with energy below threshold
    stop_reason,    \* how the capture loop ended: "silence" or "cap"
    utterance,      \* the text the last capture was transcribed to
    ended,          \* the calls that ended last: returned, or unwound
    exc             \* the exception raised in the loop that no handler of a
                    \* call caught: the call it came from, or
                    \* "KeyboardInterrupt"

vars == <<pc, audio_open, wake_buffer, text, audio_buffer, i, silence_chunks,
          transcription, history, response_text, ha_commands, stack, sent,
          ha_calls, attempts, beeps, quiet_run, stop_reason, utterance, ended,
          exc>>

\* MegatronClient.__init__ and initialize, then the entry of
\* listen_for_wake_word
Init ==
    /\ pc = "listen"
    /\ audio_open = TRUE
    /\ wake_buffer = 0
    /\ text = <<>>
    /\ audio_buffer = 0
    /\ i = 0
    /\ silence_chunks = 0
    /\ transcription = <<>>
    /\ history = <<>>
    /\ response_text = <<>>
    /\ ha_commands = <<>>
    /\ stack = <<>>
    /\ sent = <<>>
    /\ ha_calls = <<>>
    /\ attempts = <<>>
    /\ beeps = 0
    /\ quiet_run = 0
    /\ stop_reason = "none"
    /\ utterance = <<>>
    /\ ended = <<>>
    /\ exc = "none"

\* one active call of process_transcription: how it was entered, the spoken
\* text it derived, the follow-up captures it started, how playback went
Frame(src) == [src |-> src, spoken |-> <<>>, captures |-> 0, played |-> "none"]

(***************************************************************************)
(* The wake loop, listen_for_wake_word.                                    *)
(***************************************************************************)
\* the cue: aplay of a 0.2 s tone
beep == beeps' = beeps + 1

\* the wake test without lower()
wake_detected_exact(t) == Contains(t, WAKE_WORD)

\* WAKE_WORD in text.lower()
wake_detected(t) == Contains(lower(t), WAKE_WORD)

\* text.lower().split(WAKE_WORD, 1)[-1].strip(' .,!?')
after_wake(t) == Strip(SplitLast(lower(t), WAKE_WORD), WAKE_STRIP)

\* the inline test with >= for >
is_inline_ge(t) == Len(after_wake(t)) >= INLINE_MIN

\* len(after_wake) > 3
is_inline(t) == Len(after_wake(t)) > INLINE_MIN

\* the entry of record_and_respond: the buffer and the counters are reset
StartRecord ==
    /\ pc' = "record"
    /\ audio_buffer' = 0
    /\ i' = 0
    /\ silence_chunks' = 0
    /\ quiet_run' = 0
    /\ stop_reason' = "none"

\* length, data = self.audio_input.read() with length <= 0: continue
ListenReadFail(e) ==
    /\ pc = "listen"
    /\ Len(history) < 2 * e.turns
    /\ e.fails > 0
    /\ UNCHANGED vars

\* a window that is kept after its check
emptied_never(n) == n

\* wake_buffer = []  : the blocks left of a window of n once it is checked
emptied(n) == 0

\* a block is read and appended; a full window is decoded and discarded.
\* The run is cut off after e.turns chat requests.
ListenRead(e) ==
    /\ pc = "listen"
    /\ Len(history) < 2 * e.turns
    /\ IF wake_buffer + 1 >= chunks_needed
       THEN /\ wake_buffer' = emptied(wake_buffer + 1)
            /\ \E segments \in e.wake : text' = transcribe_with_model(segments)
            /\ pc' = "wake"
       ELSE /\ wake_buffer' = wake_buffer + 1
            /\ text' = <<>>
            /\ UNCHANGED pc
    /\ ended' = <<>>
    /\ ha_calls' = <<>>
    /\ attempts' = <<>>
    /\ UNCHANGED <<audio_open, audio_buffer, i, silence_chunks, transcription,
                   history, response_text, ha_commands, stack, sent, beeps,
                   quiet_run, stop_reason, utterance, exc>>

\* the wake check of a decoded window
WakeDecide ==
    /\ pc = "wake"
    /\ IF wake_detected(text)
       THEN IF is_inline(text)
            THEN /\ transcription' = after_wake(text)
                 /\ stack' = <<Frame("inline")>>
                 /\ pc' = "chat"
                 /\ UNCHANGED <<audio_buffer, i, silence_chunks, quiet_run,
                                stop_reason>>
            ELSE /\ StartRecord
                 /\ UNCHANGED <<transcription, stack>>
       ELSE /\ pc' = "listen"
            /\ UNCHANGED <<transcription, stack, audio_buffer, i,
                           silence_chunks, quiet_run, stop_reason>>
    /\ UNCHANGED <<audio_open, wake_buffer, text, history, response_text,
                   ha_commands, sent, ha_calls, attempts, beeps, utterance,
                   ended, exc>>

(***************************************************************************)
(* The capture loop, record_and_respond.                                   *)
(***************************************************************************)
\* if silence_chunks >= silence_needed: break
stops_early(n) == n >= silence_needed

\* silence_chunks after a block of the given energy
next_silence(n, energy) == IF energy < SILENCE_THRESHOLD THEN n + 1 ELSE 0

\* one iteration of the for loop: a read that fails (r = -1), or a block of
\* some energy that is appended.  The failure patterns explored: up to
\* e.fails failed reads anywhere in the capture and, where e.dead, a device
\* that delivers nothing during the whole capture.
RecordRead(e) ==
    /\ pc = "record"
    /\ i < max_chunks
    /\ i' = i + 1
    /\ \E r \in e.energies \cup {-1} :
         IF r = -1
         THEN /\ i - audio_buffer < e.fails \/ (e.dead /\ audio_buffer = 0)
              /\ pc' = IF i + 1 >= max_chunks THEN "transcribe" ELSE "record"
              /\ stop_reason' = IF i + 1 >= max_chunks THEN "cap" ELSE "none"
              /\ UNCHANGED <<audio_buffer, silence_chunks, quiet_run>>
         ELSE /\ audio_buffer > 0 \/ i <= e.fails
              /\ audio_buffer' = audio_buffer + 1
              /\ silence_chunks' = next_silence(silence_chunks, r)
              /\ quiet_run' = IF r < SILENCE_THRESHOLD THEN quiet_run + 1 ELSE 0
              /\ IF r < SILENCE_THRESHOLD
                    /\ stops_early(next_silence(silence_chunks, r))
                 THEN pc' = "transcribe" /\ stop_reason' = "silence"
                 ELSE /\ pc' = IF i + 1 >= max_chunks THEN "transcribe"
                                                      ELSE "record"
                      /\ stop_reason' = IF i + 1 >= max_chunks THEN "cap"
                                                               ELSE "none"
    /\ UNCHANGED <<audio_open, wake_buffer, text, transcription, history,
                   response_text, ha_commands, stack, sent, ha_calls, attempts,
                   beeps, utterance, ended, exc>>

\* the return of the innermost record_and_respond: to the wake loop, or to
\* the process_transcription that asked a question, which then returns too
AfterRecord == IF stack = <<>> THEN "listen" ELSE "pt_end"

\* the buffer is transcribed; empty text ends the capture, other text is
\* passed to process_transcription
RecordDone(e) ==
    /\ pc = "transcribe"
    /\ \E segments \in e.stt :
         LET t == transcribe_with_model(segments) IN
         /\ utterance' = t
         /\ IF t = <<>>
            THEN /\ pc' = AfterRecord
                 /\ UNCHANGED <<transcription, stack>>
            ELSE /\ pc' = "chat"
                 /\ transcription' = t
                 /\ stack' = Append(stack, Frame("capture"))
    /\ i' = 0
    /\ silence_chunks' = 0
    /\ quiet_run' = 0
    /\ stop_reason' = "none"
    /\ UNCHANGED <<audio_open, wake_buffer, text, audio_buffer, history,
                   response_text, ha_commands, sent, ha_calls, attempts, beeps,
                   ended, exc>>

(***************************************************************************)
(* The turn, process_transcription, and the calls it makes.                *)
(***************************************************************************)
\* the window taken from the front, self.history[:10]
context_window_front(h) ==
    IF Len(h) <= HISTORY_WINDOW THEN h ELSE SubSeq(h, 1, HISTORY_WINDOW)

\* self.history[-10:]
context_window(h) ==
    IF Len(h) <= HISTORY_WINDOW THEN h
    ELSE SubSeq(h, Len(h) - HISTORY_WINDOW + 1, Len(h))

\* messages = [{'role': 'system', ...}] + self.history[-10:]
chat_messages(h) ==
    <<[role |-> "system", content |-> SYSTEM_PROMPT]>> \o context_window(h)

\* the follow-up taken after every spoken reply
asks_question_always(spoken) == TRUE

\* spoken.rstrip().endswith('?')
asks_question(spoken) == EndsWith(RStrip(spoken, WS), "?")

\* an exception no handler of the turn catches: it unwinds every active
\* call, passes  except KeyboardInterrupt , runs  finally: self.cleanup()
\* and ends listen_for_wake_word
Raise(call) ==
    /\ pc' = "crashed"
    /\ exc' = call
    /\ audio_open' = FALSE
    /\ ended' = stack
    /\ stack' = <<>>

\* the top of the stack with one field changed
WithTop(field, value) ==
    [stack EXCEPT ![Len(stack)] = [@ EXCEPT ![field] = value]]

\* a reply that is returned and not recorded
with_reply_unrecorded(h, reply) == h

\* self.history.append({'role': 'assistant', 'content': reply})
with_reply(h, reply) == Append(h, [role |-> "assistant", content |-> reply])

\* chat: the user turn is appended, the request is sent; a reply is
\* appended and its commands extracted, a failure raises
Chat(e) ==
    /\ pc = "chat"
    /\ Len(history) < 2 * e.turns
    /\ LET h1 == Append(history, [role |-> "user", content |-> transcription])
       IN /\ sent' = chat_messages(h1)
          /\ \E out \in e.chat :
               IF out = "ok"
               THEN \E reply \in e.replies :
                      /\ history' = with_reply(h1, reply)
                      /\ response_text' = reply
                      /\ ha_commands' = extract_ha_commands(reply)
                      /\ pc' = "dispatch"
                      /\ UNCHANGED <<audio_open, stack, ended, exc>>
               ELSE /\ history' = h1
                    /\ Raise("chat")
                    /\ UNCHANGED <<response_text, ha_commands>>
    /\ ha_calls' = <<>>
    /\ attempts' = <<>>
    /\ UNCHANGED <<wake_buffer, text, audio_buffer, i, silence_chunks,
                   transcription, beeps, quiet_run, stop_reason, utterance>>

\* the for loop stopped by a failed command
after_attempt_abort(result, rest) == IF result = "ok" THEN rest ELSE <<>>

\* for cmd in ha_commands: whatever execute_ha_command did, it returned, and
\* the loop goes on with the commands that are left
after_attempt(result, rest) == rest

\* execute_ha_command on the next command of the for loop; every exception
\* is caught inside it.  The result of the attempt: the outcome of the POST,
\* "raised" for an exception before it, "skipped" for the early return
Execute(e) ==
    /\ pc = "dispatch"
    /\ ha_commands # <<>>
    /\ LET req == HaRequest(Head(ha_commands))
       IN \E out \in IF req.made THEN e.ha
                     ELSE IF req.raised THEN {"raised"} ELSE {"skipped"} :
            /\ ha_calls' = IF req.made
                           THEN Append(ha_calls, [domain |-> req.domain,
                                                  svc |-> req.svc,
                                                  result |-> out])
                           ELSE ha_calls
            /\ attempts' = Append(attempts, [command |-> Head(ha_commands),
                                             result |-> out])
            /\ ha_commands' = after_attempt(out, Tail(ha_commands))
    /\ UNCHANGED <<pc, audio_open, wake_buffer, text, audio_buffer, i,
                   silence_chunks, transcription, history, response_text,
                   stack, sent, beeps, quiet_run, stop_reason, utterance,
                   ended, exc>>

\* the synthesis of whatever clean_response returned
has_spoken_always(spoken) == TRUE

\* if spoken:
has_spoken(spoken) == spoken # <<>>

\* spoken = self.clean_response(response_text); if spoken: ...
Speak ==
    /\ pc = "dispatch"
    /\ ha_commands = <<>>
    /\ stack' = WithTop("spoken", clean_response(response_text))
    /\ pc' = IF has_spoken(clean_response(response_text)) THEN "tts"
                                                          ELSE "pt_end"
    /\ UNCHANGED <<audio_open, wake_buffer, text, audio_buffer, i,
                   silence_chunks, transcription, history, response_text,
                   ha_commands, sent, ha_calls, attempts, beeps, quiet_run,
                   stop_reason, utterance, ended, exc>>

\* tts: the synthesis request; raise_for_status or the request raises
Tts(e) ==
    /\ pc = "tts"
    /\ \E out \in e.tts :
         IF out = "ok"
         THEN /\ pc' = "play"
              /\ UNCHANGED <<audio_open, stack, ended, exc>>
         ELSE Raise("tts")
    /\ UNCHANGED <<wake_buffer, text, audio_buffer, i, silence_chunks,
                   transcription, history, response_text, ha_commands, sent,
                   ha_calls, attempts, beeps, quiet_run, stop_reason,
                   utterance>>

\* play_mp3 (a playback error is caught inside it), then the follow-up
\* test on the spoken text
Play(e) ==
    /\ pc = "play"
    /\ \E out \in e.play :
         LET top == stack[Len(stack)]
         IN IF asks_question(top.spoken)
            THEN /\ stack' = [stack EXCEPT ![Len(stack)] =
                                 [@ EXCEPT !.played = out,
                                           !.captures = @ + 1]]
                 /\ StartRecord
            ELSE /\ stack' = WithTop("played", out)
                 /\ pc' = "pt_end"
                 /\ UNCHANGED <<audio_buffer, i, silence_chunks, quiet_run,
                                stop_reason>>
    /\ UNCHANGED <<audio_open, wake_buffer, text, transcription, history,
                   response_text, ha_commands, sent, ha_calls, attempts, beeps,
                   utterance, ended, exc>>

\* process_transcription returns: to the wake loop, or to the
\* record_and_respond that called it, which returns to its own caller
PtEnd ==
    /\ pc = "pt_end"
    /\ ended' = <<stack[Len(stack)]>>
    /\ stack' = SubSeq(stack, 1, Len(stack) - 1)
    /\ pc' = IF Len(stack) = 1 THEN "listen" ELSE "pt_end"
    /\ UNCHANGED <<audio_open, wake_buffer, text, audio_buffer, i,
                   silence_chunks, transcription, history, response_text,
                   ha_commands, sent, ha_calls, attempts, beeps, quiet_run,
                   stop_reason, utterance, exc>>

\* handlers written as a bare  except:  , which catch the signal's exception
\* in execute_ha_command and in play_mp3
swallowed_bare_except(stage) == stage \in {"dispatch", "play"}

\* whether a handler around the running call catches KeyboardInterrupt:
\* except Exception  (132, 379, 408) and  except json.JSONDecodeError  (354)
\* do not, at any stage
swallowed(stage) == FALSE

\* the interrupt signal: KeyboardInterrupt is raised in whichever read or
\* call is running, unwinds every active call, is caught by
\* except KeyboardInterrupt  of listen_for_wake_word, whose  finally  runs
\* cleanup, and listen_for_wake_word returns.  A signal during the chat
\* request finds the user turn appended already
Interrupt ==
    /\ pc \notin {"crashed", "stopped"}
    /\ exc' = "KeyboardInterrupt"
    /\ IF swallowed(pc)
       THEN UNCHANGED <<pc, audio_open, ended, stack>>
       ELSE /\ pc' = "stopped"
            /\ audio_open' = FALSE
            /\ ended' = stack
            /\ stack' = <<>>
    /\ \E in_request \in IF pc = "chat" THEN BOOLEAN ELSE {FALSE} :
         LET h1 == Append(history, [role |-> "user", content |-> transcription])
         IN IF in_request
            THEN history' = h1 /\ sent' = chat_messages(h1)
            ELSE UNCHANGED <<history, sent>>
    /\ UNCHANGED <<wake_buffer, text, audio_buffer, i, silence_chunks,
                   transcription, response_text, ha_commands, ha_calls,
                   attempts, beeps, quiet_run, stop_reason, utterance>>

(***************************************************************************)
(* The environment: what the collaborators may answer.                     *)
(***************************************************************************)
\* all sequences over S of length at most n
SeqsUpTo(S, n) == UNION {[1..k -> S] : k \in 0..n}

\* n letters
Letters(n) == [k \in 1..n |-> "o"]

Megatron == <<"M", "e", "g", "a", "t", "r", "o", "n">>
MEGATRON == <<"M", "E", "G", "A", "T", "R", "O", "N">>
Hello == <<" ", "H", "e", "l", "l", "o", ".">>
Yes == <<" ", "Y", "e", "s", ".">>

\* decoded wake windows: no wake word; the wake word in three spellings
\* followed by 0..MaxTrail letters; a second segment of line breaks
WakeSegments ==
    {<<Hello>>, <<<<" ">> \o MEGATRON \o <<"!">>>>,
     <<<<" ">> \o Megatron, <<"\n", "\n", "\n", "\n", ".">>>>}
    \cup {<<<<" ">> \o Megatron \o <<",">>, <<" ">> \o Letters(n) \o <<".">>>> :
             n \in 0..MaxTrail}
    \cup {<<<<" ", "h", "e", "y", " ">> \o WAKE_WORD \o <<" ">> \o Letters(3)
             \o <<"?">>>>}

\* transcriptions of a capture: nothing, blanks, a word
SttSegments == {<<>>, <<<<" ">>, <<" ">>>>, <<Yes>>}

\* a payload  {"service": "<service>"}  between the delimiters
Directive(service) ==
    <<OPEN, "{", K_SERVICE, QUOTE>> \o service \o <<QUOTE, "}", CLOSE>>

LightOff == <<"l", ".", "o">>

\* replies: a statement, a question, a directive alone, a directive and a
\* question
Replies ==
    {<<"O", "k", ".">>, <<"O", "k", "?">>, Directive(LightOff),
     Directive(LightOff) \o <<"\n", "O", "k", "?", " ">>}

\* a reply of five delimited payloads: a service without separator, a
\* list, a service that is posted, a payload that is no JSON, a second
\* service that is posted
ManyDirectives ==
    Directive(<<"a">>) \o <<OPEN, "[]", CLOSE, "\n">> \o Directive(LightOff)
    \o <<" ", OPEN, "{", CLOSE>> \o Directive(<<"b", "/", "c">>)
    \o <<"\n", "O", "k", ".">>

\* every service identifier over a letter and the two separators, a payload
\* without service, one whose service is a number, one that is a list, one
\* with data that is no object, a reply of many payloads
DispatchReplies ==
    {Directive(s) \o <<"O", "k", ".">> :
        s \in SeqsUpTo({"a", ".", "/"}, MaxSvcLen)}
    \cup {ManyDirectives,
          <<OPEN, "{", "}", CLOSE>>,
          <<OPEN, "{", K_SERVICE, "5", "}", CLOSE>>,
          <<OPEN, "[]", CLOSE>>,
          <<OPEN, "{", K_SERVICE, QUOTE, "a", ".", "b", QUOTE, ",", K_DATA, "5",
            "}", CLOSE>>,
          <<OPEN, "{", K_ENTITY, QUOTE, "x", QUOTE, ",", K_SERVICE, QUOTE, "a",
            "/", "b", QUOTE, ",", K_DATA, "{", "}", "}", CLOSE, "?">>}

\* the segments a reply is composed of: plain text without delimiters,
\* delimited payloads that are JSON (an object, a list in white space) and
\* delimited payloads that are not (an open brace, nothing)
PlainSegs ==
    {[kind |-> "plain", toks |-> <<"O", "k">>],
     [kind |-> "plain", toks |-> <<" ">>]}

GoodSegs ==
    {[kind |-> "good", toks |-> Directive(LightOff)],
     [kind |-> "good", toks |-> <<OPEN, " ", "[]", "\n", CLOSE>>]}

BadSegs ==
    {[kind |-> "bad", toks |-> <<OPEN, "{", CLOSE>>],
     [kind |-> "bad", toks |-> <<OPEN, CLOSE>>]}

SegLists == SeqsUpTo(PlainSegs \cup GoodSegs \cup BadSegs, MaxSegs)

RECURSIVE Concat(_)
\* the text of a list of segments
Concat(l) == IF l = <<>> THEN <<>> ELSE Head(l).toks \o Concat(Tail(l))

\* every reply of at most MaxSegs segments
SegmentReplies == {Concat(l) : l \in SegLists}

\* a reply with one encoding inside the opening delimiter of another:
\* <HA_<HA_COMMAND>{}</HA_COMMAND>COMMAND>{"service": "l.o"}</HA_COMMAND> Ok.
Reassembled ==
    <<OPEN_HEAD, OPEN, "{", "}", CLOSE, OPEN_TAIL, "{", K_SERVICE, QUOTE>>
    \o LightOff \o <<QUOTE, "}", CLOSE, " ", "O", "k", ".">>

Outcomes == {"ok", "http_error", "timeout"}

\* the main environment
EnvMain ==
    [wake |-> WakeSegments, stt |-> SttSegments, replies |-> Replies,
     energies |-> {0}, fails |-> 1, dead |-> FALSE, turns |-> MaxTurns,
     chat |-> Outcomes \cup {"bad_json"}, tts |-> Outcomes,
     ha |-> {"ok", "http_error"}, play |-> {"ok", "error"}]

\* the capture environment: block energies on both sides of the threshold
EnvCapture ==
    [wake |-> {<<<<" ">> \o Megatron \o <<".">>>>},
     stt |-> {<<>>, <<Yes>>},
     replies |-> {Directive(LightOff) \o <<"O", "k", "?">>},
     energies |-> {SILENCE_THRESHOLD - 1, SILENCE_THRESHOLD},
     fails |-> MaxFailedReads, dead |-> TRUE, turns |-> CaptureTurns,
     chat |-> {"ok", "http_error"}, tts |-> {"ok", "http_error"},
     ha |-> {"ok"}, play |-> {"ok"}]

\* the history environment: many turns of two inline commands
EnvHistory ==
    [wake |-> {<<<<" ">> \o Megatron \o <<" ">> \o Letters(4)>>,
               <<<<" ">> \o Megatron \o <<" ">> \o Letters(5)>>,
               <<<<" ">> \o Megatron>>},
     stt |-> {<<>>},
     replies |-> {Directive(LightOff) \o <<"O", "k", ".">>},
     energies |-> {0}, fails |-> MaxFailedReads, dead |-> FALSE,
     turns |-> HistTurns,
     chat |-> {"ok", "timeout"}, tts |-> {"ok", "timeout"},
     ha |-> {"ok"}, play |-> {"ok"}]

\* the dispatch environment: one inline command, every kind of directive
EnvDispatch ==
    [wake |-> {<<<<" ">> \o Megatron \o <<" ">> \o Letters(4)>>},
     stt |-> {<<>>},
     replies |-> DispatchReplies,
     energies |-> {0}, fails |-> MaxFailedReads, dead |-> FALSE,
     turns |-> DispatchTurns,
     chat |-> {"ok", "http_error"}, tts |-> {"ok", "http_error"},
     ha |-> Outcomes, play |-> {"ok", "error"}]

\* the extraction environment: one captured command, every composed reply
EnvExtract ==
    [wake |-> {<<<<" ">> \o Megatron \o <<".">>>>},
     stt |-> {<<Yes>>},
     replies |-> SegmentReplies \cup {Reassembled},
     energies |-> {0}, fails |-> 1, dead |-> FALSE, turns |-> 1,
     chat |-> {"ok"}, tts |-> {"ok", "timeout"},
     ha |-> {"ok", "http_error"}, play |-> {"ok"}]

(***************************************************************************)
(* Specifications.                                                         *)
(***************************************************************************)
Next(e) ==
    \/ ListenReadFail(e)
    \/ ListenRead(e)
    \/ WakeDecide
    \/ RecordRead(e)
    \/ RecordDone(e)
    \/ Chat(e)
    \/ Execute(e)
    \/ Speak
    \/ Tts(e)
    \/ Play(e)
    \/ PtEnd

\* the whole pipeline
Spec == Init /\ [][Next(EnvMain)]_vars

\* the capture loop under every pattern of block energies
SpecCapture == Init /\ [][Next(EnvCapture)]_vars

\* long conversations
SpecHistory == Init /\ [][Next(EnvHistory)]_vars

\* directive dispatch
SpecDispatch == Init /\ [][Next(EnvDispatch)]_vars

\* extraction and cleaning of composed replies
SpecExtract == Init /\ [][Next(EnvExtract)]_vars

\* directive dispatch with the interrupt signal
SpecInterrupt == Init /\ [][Next(EnvDispatch) \/ Interrupt]_vars

(***************************************************************************)
(* Properties.  Each is stated on the variables of the model; where one    *)
(* depends on a decision of the code, the decision is restated here.       *)
(***************************************************************************)
\* the last element of a non-empty sequence
Last(s) == s[Len(s)]

\* the trigger phrase occurs in t, letter case ignored, at position k
TriggerAt(t, k) ==
    /\ k + Len(WAKE_WORD) - 1 <= Len(t)
    /\ \A j \in 1..Len(WAKE_WORD) : LowerChar(t[k + j - 1]) = WAKE_WORD[j]

\* t contains the trigger phrase as a case-insensitive substring
HasTrigger(t) == \E k \in 1..Len(t) : TriggerAt(t, k)

\* the text after the first occurrence of the trigger phrase, in lower
\* case, with the characters space . , ! ? trimmed from both ends
Trailing(t) ==
    LET k == CHOOSE m \in 1..Len(t) :
                 TriggerAt(t, m) /\ \A n \in 1..(m - 1) : ~TriggerAt(t, n)
    IN Strip(lower(SubSeq(t, k + Len(WAKE_WORD), Len(t))), {" ", ".", ",", "!", "?"})

\* s is empty or holds white space only
IsBlank(s) == \A k \in 1..Len(s) : s[k] \in {" ", "\t", "\n", "\r"}

\* C1: a failure of the chat or tts call is caught and the turn ends in
\* the listening loop: no exception of an external service ever leaves
\* listen_for_wake_word, and the capture device stays open
C1_ServiceFailureCaught ==
    /\ exc = "none"
    /\ pc # "crashed"
    /\ audio_open

\* C2: a wake check of a window whose text contains the trigger phrase
\* (case ignored) starts a turn, inline or by capture; a window without it
\* starts none, leaves the wake buffer empty and goes on accumulating
C2_WakeTransition ==
    [][pc = "wake" =>
         IF HasTrigger(text)
         THEN \/ pc' = "chat" /\ Len(stack') = 1
              \/ pc' = "record" /\ i' = 0 /\ audio_buffer' = 0
         ELSE /\ pc' = "listen"
              /\ wake_buffer' = 0
              /\ stack' = <<>>
              /\ UNCHANGED <<history, audio_buffer, transcription, sent>>]_vars

\* a capture was started by a window that spells the phrase in capitals
C2_Witness ==
    /\ pc = "record"
    /\ stack = <<>>
    /\ i = 0
    /\ wake_buffer = 0
    /\ text = MEGATRON \o <<"!">>

C4_CueBeforeCapture ==
    /\ (pc \in {"record", "transcribe"} /\ stack = <<>>) => beeps > 0
    /\ (pc = "chat" /\ Len(stack) = 1 /\ stack[1].src = "inline"
          /\ history = <<>> /\ utterance = <<>>) => beeps = 0

\* C5: the capture loop ends by the silence test exactly when the last
\* captured blocks in a row below the threshold cover the silence duration,
\* 2.0 s = 32000 frames; a block at or above the threshold restarts the count
C5_EarlyStopIffSilence ==
    /\ pc = "transcribe" =>
         (stop_reason = "silence" <=>
            quiet_run * CHUNK_SIZE * 1000 >= SILENCE_DURATION_MS * SAMPLE_RATE)
    /\ silence_chunks = quiet_run

\* C6: a capture makes at most 375 device reads, whatever the energies and
\* the failed reads, buffers at most 12 s of audio, and goes on to the
\* transcription when the loop ends
C6_CaptureBounded ==
    /\ i <= 375
    /\ pc = "record" => i < 375
    /\ (pc \in {"record", "transcribe"}) => audio_buffer <= i
    /\ audio_buffer * CHUNK_SIZE <= MAX_RECORD_SECONDS * SAMPLE_RATE
    /\ (i = 375 \/ stop_reason # "none") => pc = "transcribe"

\* the hard cap was reached with speech all along and a failed read
C6_Witness ==
    /\ pc = "transcribe"
    /\ stop_reason = "cap"
    /\ i = 375
    /\ audio_buffer < i
    /\ quiet_run = 0

\* C7: process_transcription is never entered with empty or blank text, by
\* the capture path or the inline path; a capture transcribed to empty
\* text ends with no chat request, no control call and the history as it was
C7_NoBlankTurn ==
    /\ pc = "chat" => ~IsBlank(transcription)
    /\ (pc = "chat" /\ Last(stack).src = "capture") => ~IsBlank(utterance)

\* s, with trailing white space trimmed, ends in a question mark
EndsInQuestion(s) ==
    LET r == RStrip(s, {" ", "\t", "\n", "\r"})
    IN Len(r) > 0 /\ r[Len(r)] = "?"

Min(a, b) == IF a < b THEN a ELSE b

\* C9: the messages of a chat request are the system prompt and then the
\* last min(10, len) entries of the history as it stood with the user turn
\* appended, in order; the stored history only grows
C9_ContextWindow ==
    /\ [](pc \in {"dispatch", "crashed"} /\ exc # "tts" =>
            LET h == IF pc = "dispatch"
                     THEN SubSeq(history, 1, Len(history) - 1) ELSE history
                n == Min(10, Len(h))
            IN /\ Len(sent) = n + 1
               /\ sent[1] = [role |-> "system", content |-> SYSTEM_PROMPT]
               /\ \A k \in 1..n : sent[1 + k] = h[Len(h) - n + k]
               /\ sent[Len(sent)] = [role |-> "user", content |-> transcription])
    /\ [][/\ Len(history') >= Len(history)
          /\ SubSeq(history', 1, Len(history)) = history]_vars

\* a request was sent from a history longer than the window
C9_Witness ==
    /\ pc = "dispatch"
    /\ Len(history) >= 12
    /\ Len(sent) = 11
    /\ sent[2] # history[1]

\* C10: every control call posted has a non-empty namespace and a
\* non-empty action
C10_CallNeedsNamespaceAndAction ==
    \A k \in 1..Len(ha_calls) :
        ha_calls[k].domain # <<>> /\ ha_calls[k].svc # <<>>

\* the commands of the attempts made so far in the turn
Attempted == [k \in 1..Len(attempts) |-> attempts[k].command]

\* C11: in a turn the extracted directives are attempted one by one in
\* source order, each once, whatever the result of an earlier attempt; no
\* attempt leaves the turn, and after the last one the spoken text, if any,
\* goes to synthesis and, synthesized, to playback
C11_IndependentDispatch ==
    /\ [](pc = "dispatch" =>
            Attempted \o ha_commands = extract_ha_commands(response_text))
    /\ [](pc \in {"tts", "play"} =>
            /\ Attempted = extract_ha_commands(response_text)
            /\ Last(stack).spoken # <<>>)
    /\ [][pc = "dispatch" =>
            /\ stack' # <<>> /\ audio_open' /\ exc' = "none"
            /\ IF ha_commands # <<>>
               THEN /\ pc' = "dispatch"
                    /\ Len(attempts') = Len(attempts) + 1
                    /\ ha_commands' = Tail(ha_commands)
               ELSE /\ attempts' = attempts
                    /\ pc' = IF clean_response(response_text) # <<>>
                             THEN "tts" ELSE "pt_end"]_vars
    /\ [][pc = "tts" /\ pc' # "crashed" => pc' = "play"]_vars

\* the reply of many payloads is being played: the first attempt returned
\* early, the second raised, the third was refused by the hub, the fourth
\* was accepted
C11_Witness ==
    /\ pc = "play"
    /\ Len(attempts) = 4
    /\ attempts[1].result = "skipped"
    /\ attempts[2].result = "raised"
    /\ attempts[3].result = "http_error"
    /\ attempts[4].result = "ok"
    /\ Len(ha_calls) = 2

RECURSIVE GoodDocs(_)
\* the documents of the well-formed payloads of a list of segments, in order
GoodDocs(l) ==
    IF l = <<>> THEN <<>>
    ELSE LET g == Head(l)
             payload == SubSeq(g.toks, 2, Len(g.toks) - 1)
         IN (IF g.kind = "good" THEN <<json_loads(Strip(payload, WS))>>
             ELSE <<>>) \o GoodDocs(Tail(l))

\* C12: for a reply composed of plain text (free of delimiters), well-formed
\* delimited payloads and malformed delimited payloads, the extracted list
\* is exactly the well-formed payloads in source order; the reply is left
\* as it was and a second extraction from it gives the same list
C12_ExtractionExact ==
    (pc = "dispatch" /\ attempts = <<>>) =>
        /\ \A l \in SegLists :
              Concat(l) = response_text => ha_commands = GoodDocs(l)
        /\ \A k \in 1..Len(ha_commands) : ha_commands[k].ok
        /\ Last(history).content = response_text
        /\ extract_ha_commands(response_text) = ha_commands
        /\ extract_ha_commands(Last(history).content) = ha_commands

\* two well-formed payloads around a malformed one: the object and the list
\* were extracted, in this order
C12_Witness ==
    /\ pc = "dispatch"
    /\ attempts = <<>>
    /\ response_text = Directive(LightOff) \o <<OPEN, "{", CLOSE>>
                          \o <<OPEN, " ", "[]", "\n", CLOSE>>
    /\ Len(ha_commands) = 2
    /\ ha_commands[1].type = "dict"
    /\ ha_commands[2].type = "list"

RECURSIVE PlainText(_)
\* the plain text of a list of segments, in order
PlainText(l) ==
    IF l = <<>> THEN <<>>
    ELSE (IF Head(l).kind = "plain" THEN Head(l).toks ELSE <<>>)
         \o PlainText(Tail(l))

\* s holds an opening delimiter with a closing delimiter after it
HasEncoding(s) ==
    \E a, b \in 1..Len(s) : a < b /\ s[a] = OPEN /\ s[b] = CLOSE

\* C13: the spoken text of a turn holds no delimited directive encoding,
\* whatever the reply, and for a reply composed of segments it is the plain
\* text of the segments in order, trimmed of surrounding white space
C13_SpokenHasNoDirective ==
    /\ \A k \in 1..Len(stack) : ~HasEncoding(stack[k].spoken)
    /\ pc \in {"tts", "play"} =>
          \A l \in SegLists :
              Concat(l) = response_text =>
                  Last(stack).spoken =
                      Strip(PlainText(l), {" ", "\t", "\n", "\r"})

\* C14: the interrupt signal, at whatever stage it arrives, ends the loop
\* with every active call unwound and the capture device closed, and leaves
\* the rest of the state as it was; after it no block is read and no call
\* is made: nothing changes any more
C14_InterruptUnwinds ==
    /\ [][(exc = "none" /\ exc' = "KeyboardInterrupt") =>
            /\ pc' = "stopped"
            /\ ~audio_open'
            /\ stack' = <<>>
            /\ UNCHANGED <<ha_calls, attempts, audio_buffer, wake_buffer, i>>
            /\ Len(history') >= Len(history)]_vars
    /\ [](exc = "KeyboardInterrupt" =>
            pc = "stopped" /\ ~audio_open /\ stack = <<>>)
    /\ [](pc \notin {"crashed", "stopped"} => ENABLED Interrupt)
    /\ [][pc = "stopped" => UNCHANGED vars]_vars

\* the signal arrived in the middle of the dispatch loop, after the first
\* of four attempts
C14_Witness ==
    /\ pc = "stopped"
    /\ ~audio_open
    /\ Len(attempts) = 1
    /\ Len(ha_commands) = 3
    /\ Len(ended) = 1

\* the reply is made of directive encodings and white space only
OnlyDirectives(reply) ==
    \E l \in SegLists : Concat(l) = reply /\ IsBlank(PlainText(l))

\* C15: when the reply holds directive encodings and white space only, the
\* step after the last dispatch attempt ends the turn: no synthesis, no
\* playback, no capture; the turn returns with the user turn and the reply
\* as the last two entries of the history
C15_EmptySpokenEndsTurn ==
    /\ [][(pc = "dispatch" /\ ha_commands = <<>>
             /\ OnlyDirectives(response_text)) =>
            /\ pc' = "pt_end"
            /\ Last(stack').spoken = <<>>
            /\ Last(stack').captures = 0
            /\ UNCHANGED <<history, i, audio_buffer, sent, ha_calls>>]_vars
    /\ [](pc \in {"tts", "play"} =>
            ~OnlyDirectives(response_text) /\ Last(stack).spoken # <<>>)
    /\ [](\A k \in 1..Len(ended) :
            ended[k].spoken = <<>> =>
                ended[k].played = "none" /\ ended[k].captures = 0)
    /\ [](pc = "pt_end" /\ Last(stack).spoken = <<>> =>
            /\ Len(history) >= 2
            /\ history[Len(history) - 1] =
                   [role |-> "user", content |-> transcription]
            /\ history[Len(history)] =
                   [role |-> "assistant", content |-> response_text])
    /\ [][pc = "pt_end" =>
            /\ pc' = IF Len(stack) = 1 THEN "listen" ELSE "pt_end"
            /\ Len(stack') = Len(stack) - 1
            /\ UNCHANGED history]_vars

\* a turn whose reply was two payloads and a blank has returned to the wake
\* loop: both payloads were attempted, nothing was spoken or played
C15_Witness ==
    /\ pc = "listen"
    /\ Len(ended) = 1
    /\ ended[1].spoken = <<>>
    /\ ended[1].played = "none"
    /\ ended[1].captures = 0
    /\ Len(attempts) = 2
    /\ Len(history) = 2
    /\ Last(response_text) = " "

\* C16: a turn whose playback failed starts no capture, also when its
\* spoken text ends in a question mark, and is on its way back to the wake
\* loop
C16_PlaybackFailureEndsTurn ==
    /\ \A k \in 1..Len(stack) :
          stack[k].played = "error" =>
              stack[k].captures = 0 /\ pc = "pt_end"
    /\ \A k \in 1..Len(ended) :
          ended[k].played = "error" => ended[k].captures = 0

\* C17: a turn entered from a capture was captured from at least one
\* block, whatever reads failed; a capture of no block passes nothing on
C17_NoUtteranceFromEmptyWindow ==
    (pc = "chat" /\ Last(stack).src = "capture") => audio_buffer > 0

\* C18: the wake buffer holds fewer blocks than a window; every block read
\* in idle listening adds one block to it, and the window is checked at the
\* read that makes it 62 blocks, which leaves the buffer empty; the buffer
\* is empty during the check and during the turn it starts, and still
\* empty when the wake loop reads again
C18_WindowsDisjoint ==
    /\ [](wake_buffer < 62)
    /\ [](pc # "listen" => wake_buffer = 0)
    /\ [][pc = "listen" =>
            \/ pc' = "listen" /\ wake_buffer' = wake_buffer + 1
            \/ pc' = "wake" /\ wake_buffer + 1 = 62 /\ wake_buffer' = 0]_vars
    /\ [][pc # "listen" => wake_buffer' = 0]_vars

\* a turn has finished and the wake loop has read one block since: the
\* buffer holds that block only
C18_Witness ==
    /\ pc = "listen"
    /\ wake_buffer = 1
    /\ Len(history) = 2
    /\ ended = <<>>
    /\ text = <<>>

\* C19: whenever the wake loop is reading, the history has even length and
\* its roles alternate user, assistant from the first entry on; no step
\* removes or changes an entry
C19_HistoryWellFormed ==
    /\ [](pc = "listen" =>
            /\ Len(history) % 2 = 0
            /\ \A k \in 1..Len(history) :
                  history[k].role = IF k % 2 = 1 THEN "user" ELSE "assistant")
    /\ [][\A k \in 1..Len(history) :
            k <= Len(history') /\ history'[k] = history[k]]_vars

\* the wake loop reads again after a turn that asked a question and the
\* turn of the answer: four entries, two posted calls in the last turn
C19_Witness ==
    /\ pc = "listen"
    /\ Len(history) = 4
    /\ Len(ended) = 1
    /\ ended[1].captures = 1
    /\ EndsInQuestion(history[2].content)
    /\ utterance = <<"Y", "e", "s", ".">>

\* the innermost turn of the chain does not continue it: its spoken text
\* is derived and is no question, or it is returning (after an empty spoken
\* text, after playback, or after a follow-up capture that gave no text)
ChainOver ==
    /\ stack # <<>>
    /\ \/ pc \in {"tts", "play"} /\ ~EndsInQuestion(Last(stack).spoken)
       \/ pc = "pt_end"

\* C20: once the innermost turn does not continue the chain, every step
\* leads on towards the wake loop (synthesis, playback, then one return per
\* enclosing turn) with no capture and no chat request, and the wake loop is
\* re-entered with an empty buffer; a played question starts a capture, and
\* a capture that gives text starts the next turn of the chain
C20_ChainEndsAtFirstStop ==
    /\ [][ChainOver =>
            /\ pc' \in {"play", "pt_end", "listen"}
            /\ pc = "pt_end" => Len(stack') = Len(stack) - 1
            /\ pc # "pt_end" => Len(stack') = Len(stack)
            /\ pc' = "listen" <=> stack' = <<>>
            /\ pc' = "listen" => wake_buffer' = 0
            /\ UNCHANGED <<history, sent, i, audio_buffer, ha_calls>>]_vars
    /\ [][(pc = "play" /\ EndsInQuestion(Last(stack).spoken)) =>
            pc' = "record" /\ i' = 0 /\ stack' # <<>>]_vars
    /\ [][pc = "transcribe" =>
            IF utterance' # <<>>
            THEN pc' = "chat" /\ Len(stack') = Len(stack) + 1
            ELSE /\ pc' = IF stack = <<>> THEN "listen" ELSE "pt_end"
                 /\ stack' = stack]_vars

=============================================================================
